---------------------------- MODULE Spec2Model ----------------------------
(***************************************************************************)
(* A model of the concurrency core of luoke-open:                          *)
(*   - AnnouncementFetcher (src/src/announcement_fetcher.py): N worker     *)
(*     threads race to fetch the announcement list;                        *)
(*   - RedeemController.execute (src/src/redeemer.py): the discovery loop  *)
(*     that calls the fetcher until an announcement id is found;           *)
(*   - CookieRedeemer.redeem (src/src/cookie_pool.py): the per-account     *)
(*     retry loop "captcha image -> captcha text -> submit -> classify".   *)
(* Every thread is a process with a program counter; one action is one     *)
(* step between two points where another thread can observe or change      *)
(* shared state.                                                           *)
(***************************************************************************)
EXTENDS Integers, Sequences, FiniteSets, TLC

(***************************************************************************)
(* Bounds of the model.                                                    *)
(***************************************************************************)
\* thread_count of the fetcher (config "request_threads")
NWorkers == 2
\* number of calls of fetch_announcement_list one execute may make in the model
MaxRaces == 2
\* number of accounts (web_cookies) of the pool
NAccounts == 2
\* number of loop iterations one account may start in the model
MaxAttempts == 3

VARIABLES
    \* ---- AnnouncementFetcher fields (announcement_fetcher.py:30-34)
    stop_flag,        \* self.stop_flag     (threading.Event)
    success_flag,     \* self.success_flag  (threading.Event)
    result_lock,      \* self.result_lock   (holder thread, or NoThread)
    result,           \* self.result        (0 = None, else a payload index)
    error,            \* self.error         (NoThread = None, else the thread whose exception it is)
    \* ---- race worker threads
    wpc,              \* position of each worker thread in _fetch_worker
    wdata,            \* local variable data of each worker
    \* ---- the thread running RedeemController.execute
    mpc,              \* position in execute / fetch_announcement_list
    raceNo,           \* number of fetch_announcement_list calls started
    joinIdx,          \* index of the thread joined next (line 126)
    announcement_id,  \* local announcement_id of execute (0 = None)
    execResult,       \* what execute returned ("none" while running)
    \* ---- the caller's token (gui.py:56), passed to execute as stop_flag
    gui_stop_flag,
    \* ---- environment of the race: which outcomes the discovery call has
    envMode,
    polls,            \* number of polls of the discovery loop the run is followed for
    \* ---- history of the race (not program state)
    winWrites,        \* writes of result by workers of the running call
    lateCalls,        \* per worker: calls started while stop_flag was set
    \* ---- CookieRedeemer, one per account (cookie_pool.py:53-54, 75-160)
    apc,              \* position of each account thread in redeem
    attempt,          \* local attempt
    captcha_image,    \* local captcha_image (0 = None, else id of the challenge)
    captcha,          \* local captcha (0 = None, else id of the challenge it was read from)
    status,           \* self.status
    redeem_result,    \* the dict redeem returned
    lastResp,         \* the response of the latest redeem_code call
    rmode,            \* environment of the accounts
    \* ---- history of the accounts (not program state)
    acqCalls, solveCalls, submitCalls,   \* calls of get_captcha_image, get_captcha_with_image, redeem_code
    solvedOf,         \* per challenge: how often it was handed to the captcha handler
    submittedOf,      \* per challenge: how often an answer read from it was submitted
    \* ---- CookiePool.execute_concurrent (cookie_pool.py:207-255) and the end of execute
    poolSize,         \* len(self.redeemers); 0 = no cookie configured (cookie_pool is None)
    results,          \* local results: one slot per redeemer (NoSlot = None)
    wkpc,             \* position of each redeem_worker thread
    pIdx,             \* index of the thread started next (line 240), then joined next (line 251)
    execData,         \* the dict execute returned after the pool ran (NoData before)
    \* ---- history of the pool (not program state)
    slotWrites,       \* per slot: how often it was assigned
    doneOrder,        \* the accounts in the order in which their redeem_worker stored
    \* ---- RockKingdomGUI (gui.py)
    start_btn,        \* self.start_btn is enabled
    stop_btn,         \* self.stop_btn is enabled
    runs,             \* the _execute_redeem threads started so far, each with its position
    sched,            \* the scheduler thread: "none", "waiting" or "firing"
    schedule_stop_event, \* gui.py:60, set by _cancel_schedule
    schedNo,          \* the number of schedules armed so far
    startQueued,      \* schedules whose _scheduled_start is queued with root.after
    schedCancelled,   \* history: schedules for which _cancel_schedule was called
    schedStarts,      \* history: per schedule, the executions of _scheduled_start
    configValid,      \* what config_manager.validate() answers
    \* ---- RedeemController.execute (redeemer.py), the stages around the race
    cfgKeyword,       \* config["announcement_keyword"], <<>> when not configured
    detail,           \* execute's detail: 0 (None), 1 (content with a password),
                      \* 2 (content without one), 3 (the empty payload {})
    password,         \* execute's password: 0 (None) or 1
    detailCalls,      \* calls of api_client.get_announcement_detail
    extractCalls,     \* calls of password_extractor.extract_password
    notFound,         \* 'not found' progress messages of the discovery loop
    \* ---- the keyword match of fetch_announcement_list on an arbitrary list
    mList,            \* the announcement list of self.result
    mKey,             \* the keyword argument
    mOut,             \* the value returned: an id, 0 (None), -1 while not returned
    \* ---- the caller's progress sink
    sinkFails,        \* progress_callback raises whenever it is invoked
    \* ---- history of the race whose every call fails retryably (not program state)
    failedCalls,      \* per worker: calls that returned None or raised, up to 2
    \* ---- history of execute (not program state)
    poolCalls,        \* calls of cookie_pool.execute_concurrent
    stopAtEntry,      \* the caller's stop flag as it was when execute was called
    resultBy,         \* the worker that wrote self.result last
    \* ---- gui.py: manual challenge entry (_show_captcha_input)
    captcha_ready_event, \* gui.py:53
    captcha_input_var,   \* gui.py:52, the text typed: the image it was typed for
    captcha_window,      \* gui.py:51, the image shown by the open window
    afterQueue,       \* the _create_captcha_window calls queued with root.after
    cpc,              \* per account: its position in _show_captcha_input
    creq,             \* per account: the number of its requests
    cans,             \* per account: the answer its last request returned
    submits,          \* history: submissions by the user
    releases          \* history: returns of captcha_ready_event.wait()

raceVars == <<stop_flag, success_flag, result_lock, result, error, wpc, wdata,
              mpc, raceNo, joinIdx, announcement_id, execResult, envMode, polls,
              winWrites, lateCalls>>
acctVars == <<apc, attempt, captcha_image, captcha, status, redeem_result,
              lastResp, rmode, acqCalls, solveCalls, submitCalls,
              solvedOf, submittedOf>>
poolVars == <<poolSize, results, wkpc, pIdx, execData, slotWrites, doneOrder>>
schedVars == <<sched, schedule_stop_event, schedNo, startQueued, schedCancelled,
               schedStarts>>
guiVars == <<start_btn, stop_btn, runs, schedVars, configValid>>
execVars == <<cfgKeyword, detail, password, detailCalls, extractCalls, notFound>>
matchVars == <<mList, mKey, mOut>>
capVars == <<captcha_ready_event, captcha_input_var, captcha_window, afterQueue,
             cpc, creq, cans, submits, releases>>
auxVars == <<matchVars, sinkFails, failedCalls, poolCalls, stopAtEntry, resultBy,
             capVars>>
restVars == <<poolVars, guiVars, execVars, auxVars>>
vars == <<raceVars, acctVars, gui_stop_flag, restVars>>

(***************************************************************************)
(* The discovery payload and the keyword match.                            *)
(***************************************************************************)
Threads == (1..MaxRaces) \X (1..NWorkers)
NoThread == <<0, 0>>

\* keyword in title: title and keyword are sequences of symbols
Contains(title, keyword) ==
    \E i \in 0..(Len(title) - Len(keyword)) :
        \A j \in 1..Len(keyword) : title[i + j] = keyword[j]

Keyword == <<"Day1">>

Payloads ==
    << << [title |-> <<"Event", "Day0">>, id |-> 10],
          [title |-> <<"Event", "Day1">>, id |-> 11],
          [title |-> <<"Day1", "rerun">>, id |-> 12] >>,
       << [title |-> <<"Event", "Day0">>, id |-> 10] >> >>

PayloadIds == 1..Len(Payloads)

RECURSIVE FirstMatch(_, _, _)
FirstMatch(list, keyword, i) ==
    IF i > Len(list) THEN 0
    ELSE IF Contains(list[i].title, keyword) THEN list[i].id
    ELSE FirstMatch(list, keyword, i + 1)

\* a match that takes the first item of the list, whatever its title
MatchResult_FirstItem(r) ==
    IF r = 0 \/ Len(Payloads[r]) = 0 THEN 0 ELSE Payloads[r][1].id

\* lines 134-151: the value fetch_announcement_list returns for self.result = r
MatchResult(r) ==
    IF r = 0 THEN 0 ELSE FirstMatch(Payloads[r], Keyword, 1)

\* the lists none of whose titles contains the keyword
NoMatchPayloads ==
    { k \in PayloadIds :
        \A i \in 1..Len(Payloads[k]) : ~Contains(Payloads[k][i].title, Keyword) }

\* what one call of api_client.get_announcement_list can do, by environment
Outcomes(mode) ==
    CASE mode = "retry"   -> {<<"none", 0>>, <<"exc", 0>>}
      [] mode = "invalid" -> {<<"invalid", 0>>}
      [] mode = "nomatch" -> { <<"data", k>> : k \in NoMatchPayloads }
      [] OTHER -> {<<"none", 0>>, <<"exc", 0>>, <<"invalid", 0>>}
                     \cup { <<"data", k>> : k \in PayloadIds }

RaceModes == {"any", "retry", "invalid"}


(***************************************************************************)
(* Race workers: AnnouncementFetcher._fetch_worker, lines 36-80.           *)
(* Positions: "idle" (not started), "check" (line 44, about to read        *)
(* stop_flag), "ready" (line 47, about to call), "inflight" (inside        *)
(* get_announcement_list), "claim" (line 51, waiting for result_lock),     *)
(* "wres" / "wsucc" / "wstop" (lines 53, 54, 55, holding the lock),        *)
(* "claimE" (line 68), "werr" / "wstopE" (lines 70, 71), "done".           *)
(***************************************************************************)
Gen(w) == w[1]

\* the running call's own workers
IsCurrent(w) == Gen(w) = raceNo

\* the thread of execute is inside fetch_announcement_list
InFetch == mpc \in {"f_clr_stop", "f_clr_succ", "f_clr_res", "f_clr_err", "f_spawn",
                    "f_wait", "f_setstop", "f_join", "f_rd_err", "f_rd_res"}

\* a fetcher whose workers do not take result_lock
LockFree_NoLock == TRUE

\* with self.result_lock: the lock can be taken
LockFree == result_lock = NoThread

\* a worker that loops on "while True"
LoopCondition_Always == TRUE

\* line 44: while not self.stop_flag.is_set()
LoopCondition == ~stop_flag

Bump(n) == IF n < 2 THEN n + 1 ELSE n

WCheck(w) ==
    /\ wpc[w] = "check"
    /\ wpc' = [wpc EXCEPT ![w] = IF LoopCondition THEN "ready" ELSE "done"]
    /\ UNCHANGED <<stop_flag, success_flag, result_lock, result, error, wdata,
                   mpc, raceNo, joinIdx, announcement_id, execResult, envMode, polls,
                   winWrites, lateCalls, gui_stop_flag, acctVars, restVars>>

\* line 47: the call of get_announcement_list starts
WCall(w) ==
    /\ wpc[w] = "ready"
    /\ wpc' = [wpc EXCEPT ![w] = "inflight"]
    /\ lateCalls' = [lateCalls EXCEPT ![w] = IF stop_flag THEN Bump(@) ELSE @]
    /\ UNCHANGED <<stop_flag, success_flag, result_lock, result, error, wdata,
                   mpc, raceNo, joinIdx, announcement_id, execResult, envMode, polls,
                   winWrites, gui_stop_flag, acctVars, restVars>>

\* a worker that gives up at its first failed call
NextAfter_GiveUp(kind) ==
    CASE kind = "data"    -> "claim"
      [] kind = "invalid" -> "claimE"
      [] OTHER            -> "done"

\* lines 49-51, 60-68, 76-80: where the worker goes with data, with
\* InvalidSessionError, and with None or any other exception (back to line 44)
NextAfter(kind) ==
    CASE kind = "data"    -> "claim"
      [] kind = "invalid" -> "claimE"
      [] OTHER            -> "check"

\* lines 47-49, 60-66, 76-80: the call returns data, returns None, or raises
WReturn(w) ==
    /\ wpc[w] = "inflight"
    /\ \E out \in Outcomes(envMode) :
         /\ wdata' = [wdata EXCEPT ![w] = out[2]]
         /\ wpc' = [wpc EXCEPT ![w] = NextAfter(out[1])]
    /\ failedCalls' = IF envMode = "retry"
                         THEN [failedCalls EXCEPT ![w] = Bump(@)]
                         ELSE failedCalls
    /\ UNCHANGED <<stop_flag, success_flag, result_lock, result, error,
                   mpc, raceNo, joinIdx, announcement_id, execResult, envMode, polls,
                   winWrites, lateCalls, gui_stop_flag, acctVars, poolVars, guiVars,
                   execVars, matchVars, sinkFails, poolCalls, stopAtEntry, resultBy,
                   capVars>>

\* lines 51-52 and 59: take the lock, read success_flag; set already: release, break
WClaim(w) ==
    /\ wpc[w] = "claim"
    /\ LockFree
    /\ IF success_flag
          THEN /\ wpc' = [wpc EXCEPT ![w] = "done"]
               /\ UNCHANGED result_lock
          ELSE /\ wpc' = [wpc EXCEPT ![w] = "wres"]
               /\ result_lock' = w
    /\ UNCHANGED <<stop_flag, success_flag, result, error, wdata,
                   mpc, raceNo, joinIdx, announcement_id, execResult, envMode, polls,
                   winWrites, lateCalls, gui_stop_flag, acctVars, restVars>>

\* line 53: self.result = data
WRes(w) ==
    /\ wpc[w] = "wres"
    /\ result' = wdata[w]
    /\ winWrites' = IF IsCurrent(w) /\ InFetch
                       THEN Bump(winWrites) ELSE winWrites
    /\ wpc' = [wpc EXCEPT ![w] = "wsucc"]
    /\ resultBy' = w
    /\ UNCHANGED <<stop_flag, success_flag, result_lock, error, wdata,
                   mpc, raceNo, joinIdx, announcement_id, execResult, envMode, polls,
                   lateCalls, gui_stop_flag, acctVars, poolVars, guiVars, execVars,
                   matchVars, sinkFails, failedCalls, poolCalls, stopAtEntry, capVars>>

\* line 54: self.success_flag.set()
WSucc(w) ==
    /\ wpc[w] = "wsucc"
    /\ success_flag' = TRUE
    /\ wpc' = [wpc EXCEPT ![w] = "wstop"]
    /\ UNCHANGED <<stop_flag, result_lock, result, error, wdata,
                   mpc, raceNo, joinIdx, announcement_id, execResult, envMode, polls,
                   winWrites, lateCalls, gui_stop_flag, acctVars, restVars>>

\* lines 55-59: self.stop_flag.set(), leave the with block, break
WStop(w) ==
    /\ wpc[w] = "wstop"
    /\ stop_flag' = TRUE
    /\ result_lock' = NoThread
    /\ wpc' = [wpc EXCEPT ![w] = "done"]
    /\ UNCHANGED <<success_flag, result, error, wdata,
                   mpc, raceNo, joinIdx, announcement_id, execResult, envMode, polls,
                   winWrites, lateCalls, gui_stop_flag, acctVars, restVars>>

\* lines 68-69 and 75: take the lock, read self.error; set already: release, break
WClaimE(w) ==
    /\ wpc[w] = "claimE"
    /\ LockFree
    /\ IF error # NoThread
          THEN /\ wpc' = [wpc EXCEPT ![w] = "done"]
               /\ UNCHANGED result_lock
          ELSE /\ wpc' = [wpc EXCEPT ![w] = "werr"]
               /\ result_lock' = w
    /\ UNCHANGED <<stop_flag, success_flag, result, error, wdata,
                   mpc, raceNo, joinIdx, announcement_id, execResult, envMode, polls,
                   winWrites, lateCalls, gui_stop_flag, acctVars, restVars>>

\* line 70: self.error = e
WErr(w) ==
    /\ wpc[w] = "werr"
    /\ error' = w
    /\ wpc' = [wpc EXCEPT ![w] = "wstopE"]
    /\ UNCHANGED <<stop_flag, success_flag, result_lock, result, wdata,
                   mpc, raceNo, joinIdx, announcement_id, execResult, envMode, polls,
                   winWrites, lateCalls, gui_stop_flag, acctVars, restVars>>

\* a worker that records the error but does not set stop_flag
WStopE_NoSet(w) ==
    /\ wpc[w] = "wstopE"
    /\ result_lock' = NoThread
    /\ wpc' = [wpc EXCEPT ![w] = "done"]
    /\ UNCHANGED <<stop_flag, success_flag, result, error, wdata,
                   mpc, raceNo, joinIdx, announcement_id, execResult, envMode, polls,
                   winWrites, lateCalls, gui_stop_flag, acctVars, restVars>>

\* lines 71-75: self.stop_flag.set(), leave the with block, break
WStopE(w) ==
    /\ wpc[w] = "wstopE"
    /\ stop_flag' = TRUE
    /\ result_lock' = NoThread
    /\ wpc' = [wpc EXCEPT ![w] = "done"]
    /\ UNCHANGED <<success_flag, result, error, wdata,
                   mpc, raceNo, joinIdx, announcement_id, execResult, envMode, polls,
                   winWrites, lateCalls, gui_stop_flag, acctVars, restVars>>

WorkerStep(w) ==
    \/ WCheck(w)
    \/ WCall(w)
    \/ WReturn(w)
    \/ WClaim(w)
    \/ WRes(w)
    \/ WSucc(w)
    \/ WStop(w)
    \/ WClaimE(w)
    \/ WErr(w)
    \/ WStopE(w)


(***************************************************************************)
(* The thread running RedeemController.execute (redeemer.py:97-124) and,   *)
(* inside it, AnnouncementFetcher.fetch_announcement_list (lines 97-151).  *)
(* Positions: "x_loop" (redeemer.py:99), "f_clr_stop" .. "f_clr_err"       *)
(* (lines 98-101), "f_spawn" (109-116), "f_wait" (119), "f_setstop" (123), *)
(* "f_join" (126-127), "f_rd_err" (130), "f_rd_res" (134-151),             *)
(* "x_detail" (redeemer.py:127, the race stage is over), "x_ret"           *)
(* (execute has returned).                                                 *)
(***************************************************************************)
CurrentThreads == { w \in Threads : IsCurrent(w) }

\* redeemer.py:97-100: the cancellation check at the top of the discovery loop
XLoopCancel ==
    /\ mpc = "x_loop"
    /\ gui_stop_flag
    /\ execResult' = "cancelled"
    /\ mpc' = "x_ret"
    /\ UNCHANGED <<stop_flag, success_flag, result_lock, result, error, wpc, wdata,
                   raceNo, joinIdx, announcement_id, envMode, polls,
                   winWrites, lateCalls, gui_stop_flag, acctVars, restVars>>

\* a discovery loop that starts its poll without looking at the stop flag
XLoopFetch_NoCheck ==
    /\ mpc = "x_loop"
    /\ raceNo < polls
    /\ raceNo' = raceNo + 1
    /\ mpc' = "f_clr_stop"
    /\ winWrites' = 0
    /\ UNCHANGED <<stop_flag, success_flag, result_lock, result, error, wpc, wdata,
                   joinIdx, announcement_id, execResult, envMode, polls,
                   lateCalls, gui_stop_flag, acctVars, restVars>>

\* redeemer.py:102-109: the next poll calls fetch_announcement_list
XLoopFetch ==
    /\ mpc = "x_loop"
    /\ ~gui_stop_flag
    /\ raceNo < polls
    /\ raceNo' = raceNo + 1
    /\ mpc' = "f_clr_stop"
    /\ winWrites' = 0
    /\ UNCHANGED <<stop_flag, success_flag, result_lock, result, error, wpc, wdata,
                   joinIdx, announcement_id, execResult, envMode, polls,
                   lateCalls, gui_stop_flag, acctVars, restVars>>

\* line 98: self.stop_flag.clear()
FClearStop ==
    /\ mpc = "f_clr_stop"
    /\ stop_flag' = FALSE
    /\ lateCalls' = [w \in Threads |-> 0]
    /\ mpc' = "f_clr_succ"
    /\ UNCHANGED <<success_flag, result_lock, result, error, wpc, wdata,
                   raceNo, joinIdx, announcement_id, execResult, envMode, polls,
                   winWrites, gui_stop_flag, acctVars, restVars>>

\* line 99: self.success_flag.clear()
FClearSuccess ==
    /\ mpc = "f_clr_succ"
    /\ success_flag' = FALSE
    /\ mpc' = "f_clr_res"
    /\ UNCHANGED <<stop_flag, result_lock, result, error, wpc, wdata,
                   raceNo, joinIdx, announcement_id, execResult, envMode, polls,
                   winWrites, lateCalls, gui_stop_flag, acctVars, restVars>>

\* line 100: self.result = None
FClearResult ==
    /\ mpc = "f_clr_res"
    /\ result' = 0
    /\ mpc' = "f_clr_err"
    /\ UNCHANGED <<stop_flag, success_flag, result_lock, error, wpc, wdata,
                   raceNo, joinIdx, announcement_id, execResult, envMode, polls,
                   winWrites, lateCalls, gui_stop_flag, acctVars, restVars>>

\* line 101: self.error = None
FClearError ==
    /\ mpc = "f_clr_err"
    /\ error' = NoThread
    /\ mpc' = "f_spawn"
    /\ UNCHANGED <<stop_flag, success_flag, result_lock, result, wpc, wdata,
                   raceNo, joinIdx, announcement_id, execResult, envMode, polls,
                   winWrites, lateCalls, gui_stop_flag, acctVars, restVars>>

\* lines 108-116: start thread_count worker threads
FSpawn ==
    /\ mpc = "f_spawn"
    /\ wpc' = [w \in Threads |-> IF IsCurrent(w) THEN "check" ELSE wpc[w]]
    /\ mpc' = "f_wait"
    /\ UNCHANGED <<stop_flag, success_flag, result_lock, result, error, wdata,
                   raceNo, joinIdx, announcement_id, execResult, envMode, polls,
                   winWrites, lateCalls, gui_stop_flag, acctVars, restVars>>

\* line 119: while not self.success_flag.is_set() and not self.stop_flag.is_set()
WaitCondition == ~success_flag /\ ~stop_flag

\* lines 119-120: the wait loop ends (while it goes on, the thread only sleeps)
FWait ==
    /\ mpc = "f_wait"
    /\ ~WaitCondition
    /\ mpc' = "f_setstop"
    /\ UNCHANGED <<stop_flag, success_flag, result_lock, result, error, wpc, wdata,
                   raceNo, joinIdx, announcement_id, execResult, envMode, polls,
                   winWrites, lateCalls, gui_stop_flag, acctVars, restVars>>

\* line 123: self.stop_flag.set()
FSetStop ==
    /\ mpc = "f_setstop"
    /\ stop_flag' = TRUE
    /\ joinIdx' = 1
    /\ mpc' = "f_join"
    /\ UNCHANGED <<success_flag, result_lock, result, error, wpc, wdata,
                   raceNo, announcement_id, execResult, envMode, polls,
                   winWrites, lateCalls, gui_stop_flag, acctVars, restVars>>

\* thread.join(timeout=1) returns: the thread has ended, or one second has passed.
\* A thread needs a second only inside the remote call (request timeout 5 s);
\* its other steps and its 0.1 s sleep are shorter than the join timeout.
JoinReturns(w) == wpc[w] \in {"done", "inflight"}

\* lines 126-127: for thread in threads: thread.join(timeout=1)
FJoin ==
    /\ mpc = "f_join"
    /\ JoinReturns(<<raceNo, joinIdx>>)
    /\ IF joinIdx < NWorkers
          THEN /\ joinIdx' = joinIdx + 1
               /\ mpc' = mpc
          ELSE /\ joinIdx' = 0
               /\ mpc' = "f_rd_err"
    /\ UNCHANGED <<stop_flag, success_flag, result_lock, result, error, wpc, wdata,
                   raceNo, announcement_id, execResult, envMode, polls,
                   winWrites, lateCalls, gui_stop_flag, acctVars, restVars>>

\* an execute without its except clause: the exception leaves execute
ExceptClause_Reraise(e) == "raised"

\* redeemer.py:232-234: except Exception as e: return self._error_result(...)
ExceptClause(e) == IF e = "sink" THEN "sink_exception" ELSE "exception"

\* lines 130-131 and redeemer.py:232-234: if self.error: raise self.error;
\* execute catches it and returns the error result
FReadError ==
    /\ mpc = "f_rd_err"
    /\ IF error # NoThread
          THEN /\ execResult' = ExceptClause("invalid_session")
               /\ mpc' = "x_ret"
          ELSE /\ execResult' = execResult
               /\ mpc' = "f_rd_res"
    /\ UNCHANGED <<stop_flag, success_flag, result_lock, result, error, wpc, wdata,
                   raceNo, joinIdx, announcement_id, envMode, polls,
                   winWrites, lateCalls, gui_stop_flag, acctVars, restVars>>

\* lines 134-151 and redeemer.py:109-124: the keyword match on self.result; the
\* value returned is execute's announcement_id: found ends the loop, None polls again
FReadResult ==
    /\ mpc = "f_rd_res"
    /\ announcement_id' = MatchResult(result)
    /\ mpc' = IF MatchResult(result) # 0 THEN "x_detail" ELSE "x_loop"
    /\ notFound' = IF MatchResult(result) # 0 THEN notFound ELSE notFound + 1
    /\ UNCHANGED <<stop_flag, success_flag, result_lock, result, error, wpc, wdata,
                   raceNo, joinIdx, execResult, envMode, polls,
                   winWrites, lateCalls, gui_stop_flag, acctVars, auxVars, poolVars, guiVars,
                   cfgKeyword, detail, password, detailCalls, extractCalls>>

MainStep ==
    \/ XLoopCancel
    \/ XLoopFetch
    \/ FClearStop
    \/ FClearSuccess
    \/ FClearResult
    \/ FClearError
    \/ FSpawn
    \/ FWait
    \/ FSetStop
    \/ FJoin
    \/ FReadError
    \/ FReadResult

\* gui.py:587-593: the user presses the stop button (enabled while a run executes)
StopExecution ==
    /\ stop_btn
    /\ gui_stop_flag' = TRUE
    /\ stop_btn' = FALSE
    /\ start_btn' = TRUE
    /\ UNCHANGED <<raceVars, acctVars, auxVars, poolVars, execVars, runs, schedVars, configValid>>


(***************************************************************************)
(* The response of APIClient.redeem_code (api_client.py:297-369): a dict   *)
(* that may or may not hold the keys "ret" and "sMsg".  A key is a         *)
(* sequence of length 0 (absent) or 1 (its value).  A message is a         *)
(* sequence of symbols; QualA stands for the text "已有测试资格" and QualB *)
(* for "无需重复兑换" (cookie_pool.py:129).                                *)
(***************************************************************************)
CodeLimit == 100001
CodeNotLoggedIn == 101
CodeCaptchaWrong == 120001

QualA == <<"QUAL_A">>
QualB == <<"QUAL_B">>
\* result.get("sMsg", "未知错误")
DefaultMessage == <<"unknown_error">>

Messages == { <<"QUAL_A", ",", "QUAL_B">>, <<"QUAL_A">>, <<"text", "QUAL_B">>,
              <<"text">>, <<>> }
RetCodes == {0, 1, CodeLimit, CodeNotLoggedIn, CodeCaptchaWrong, -1}

Responses ==
    [ret : {<<>>} \cup { <<c>> : c \in RetCodes },
     sMsg : {<<>>} \cup { <<m>> : m \in Messages }]

NoResp == [ret |-> <<>>, sMsg |-> <<"no_response">>]

\* api_client.py:364-369: the dict redeem_code returns on a network failure
NetworkFailure == [ret |-> <<-1>>, sMsg |-> <<<<"text">>>>]

\* line 118: result.get("ret", -1)
RetCode(resp) == IF resp.ret = <<>> THEN -1 ELSE resp.ret[1]

\* line 119: result.get("sMsg", "未知错误")
Message(resp) == IF resp.sMsg = <<>> THEN DefaultMessage ELSE resp.sMsg[1]

\* line 129: "已有测试资格" in message or "无需重复兑换" in message
SaysQualified(message) == Contains(message, QualA) \/ Contains(message, QualB)

\* a redeemer that checks the numeric codes before the message
Classify_CodeFirst(resp) ==
    LET ret_code == RetCode(resp)
        message  == Message(resp)
    IN  IF ret_code = 0 THEN "success"
        ELSE IF ret_code = CodeLimit THEN "limit"
        ELSE IF ret_code = CodeNotLoggedIn THEN "not_logged_in"
        ELSE IF ret_code = CodeCaptchaWrong THEN "captcha_wrong"
        ELSE IF SaysQualified(message) THEN "qualified"
        ELSE "other"

\* a redeemer without the check of code 100001
Classify_NoLimit(resp) ==
    LET ret_code == RetCode(resp)
        message  == Message(resp)
    IN  IF ret_code = 0 THEN "success"
        ELSE IF SaysQualified(message) THEN "qualified"
        ELSE IF ret_code = CodeNotLoggedIn THEN "not_logged_in"
        ELSE IF ret_code = CodeCaptchaWrong THEN "captcha_wrong"
        ELSE "other"

\* lines 121-160: the order of the checks on one response
Classify(resp) ==
    LET ret_code == RetCode(resp)
        message  == Message(resp)
    IN  IF ret_code = 0 THEN "success"
        ELSE IF SaysQualified(message) THEN "qualified"
        ELSE IF ret_code = CodeLimit THEN "limit"
        ELSE IF ret_code = CodeNotLoggedIn THEN "not_logged_in"
        ELSE IF ret_code = CodeCaptchaWrong THEN "captcha_wrong"
        ELSE "other"

\* a redeemer that gives up on an unknown code
Terminal_GiveUpOnOther(outcome) ==
    outcome \in {"success", "qualified", "limit", "not_logged_in", "other"}

\* a redeemer that gives up on a wrong captcha
Terminal_GiveUpOnWrong(outcome) ==
    outcome \in {"success", "qualified", "limit", "not_logged_in", "captcha_wrong"}

\* lines 126, 133, 140, 147 return; lines 154 and 160 continue
Terminal(outcome) == outcome \in {"success", "qualified", "limit", "not_logged_in"}

\* a redeemer that asks for a new answer to the same image after a wrong captcha
RetryFrom_SameImage(outcome) == IF outcome = "captcha_wrong" THEN "solve" ELSE "top"

\* lines 153-154 and 159-160: continue, back to the top of the while loop
RetryFrom(outcome) == "top"

\* lines 126, 133, 140, 147: the dict redeem returns
ResultOf(outcome, resp) ==
    [success |-> outcome \in {"success", "qualified"},
     message |-> outcome,
     data    |-> resp]

\* line 82: {"success": False, "message": "用户取消执行"}
CancelledResult == [success |-> FALSE, message |-> "cancelled", data |-> NoResp]

NoResult == [success |-> FALSE, message |-> "none", data |-> NoResp]

\* the responses redeem_code gives in each environment of the accounts
\* the responses of a pool run: a success, an already-qualified message under a
\* generic failure code, a reported failure, and the wrong answer that retries
PoolResponses ==
    { [ret |-> <<0>>, sMsg |-> <<<<"text">>>>],
      [ret |-> <<1>>, sMsg |-> << <<"QUAL_A", ",", "QUAL_B">> >>],
      [ret |-> <<CodeLimit>>, sMsg |-> <<<<"text">>>>],
      [ret |-> <<CodeCaptchaWrong>>, sMsg |-> <<<<"text">>>>] }

SubmitResponses(mode) ==
    CASE mode = "wrong" -> {[ret |-> <<CodeCaptchaWrong>>, sMsg |-> <<<<"text">>>>]}
      [] mode = "any"   -> Responses
      [] OTHER          -> PoolResponses

RedeemModes == {"any", "wrong"}

\* environment of a pool run: every image and every answer is obtained, the submit
\* gives any of PoolResponses, the captcha callback may raise
PoolModes == {"pool"}

(***************************************************************************)
(* CookieRedeemer.redeem, cookie_pool.py:56-160, one thread per account.   *)
(* Positions: "idle" (thread not started), "top" (line 80), "acquire"      *)
(* (line 88), "solve" (line 96), "submit" (line 115), "done" (returned).   *)
(* A challenge is named by the iteration that fetched it.                  *)
(***************************************************************************)
Accounts == 1..NAccounts
Challenges == 1..MaxAttempts

\* lines 75-76: attempt = 0; self.status = "兑换中"
REnter(a) ==
    /\ apc[a] = "idle"
    /\ attempt' = [attempt EXCEPT ![a] = 0]
    /\ status' = [status EXCEPT ![a] = "redeeming"]
    /\ apc' = [apc EXCEPT ![a] = "top"]
    /\ UNCHANGED <<captcha_image, captcha, redeem_result, lastResp, rmode,
                   acqCalls, solveCalls, submitCalls, solvedOf, submittedOf,
                   gui_stop_flag, raceVars, restVars>>

\* a redeemer that never looks at the stop flag
StopRequested_Never == FALSE

\* line 80: if stop_flag and stop_flag.is_set()
StopRequested == gui_stop_flag

\* a redeemer that looks at the stop flag before its first attempt only
RTop_StopBeforeFirstOnly(a) ==
    /\ apc[a] = "top"
    /\ IF StopRequested /\ attempt[a] = 0
          THEN /\ status' = [status EXCEPT ![a] = "stopped"]
               /\ redeem_result' = [redeem_result EXCEPT ![a] = CancelledResult]
               /\ apc' = [apc EXCEPT ![a] = "done"]
               /\ UNCHANGED attempt
          ELSE /\ attempt[a] < MaxAttempts
               /\ attempt' = [attempt EXCEPT ![a] = @ + 1]
               /\ apc' = [apc EXCEPT ![a] = "acquire"]
               /\ UNCHANGED <<status, redeem_result>>
    /\ lastResp' = [lastResp EXCEPT ![a] = NoResp]
    /\ UNCHANGED <<captcha_image, captcha, rmode,
                   acqCalls, solveCalls, submitCalls, solvedOf, submittedOf,
                   gui_stop_flag, raceVars, restVars>>

\* lines 80-85: return the cancelled result, or start the next attempt
RTop(a) ==
    /\ apc[a] = "top"
    /\ IF StopRequested
          THEN /\ status' = [status EXCEPT ![a] = "stopped"]
               /\ redeem_result' = [redeem_result EXCEPT ![a] = CancelledResult]
               /\ apc' = [apc EXCEPT ![a] = "done"]
               /\ UNCHANGED attempt
          ELSE /\ attempt[a] < MaxAttempts
               /\ attempt' = [attempt EXCEPT ![a] = @ + 1]
               /\ apc' = [apc EXCEPT ![a] = "acquire"]
               /\ UNCHANGED <<status, redeem_result>>
    /\ lastResp' = [lastResp EXCEPT ![a] = NoResp]
    /\ UNCHANGED <<captcha_image, captcha, rmode,
                   acqCalls, solveCalls, submitCalls, solvedOf, submittedOf,
                   gui_stop_flag, raceVars, restVars>>

\* what get_captcha_image returns in iteration n: None (0) or a new image
Images(mode, n) == IF mode = "any" THEN {0, n} ELSE {n}

\* lines 89-93: if not captcha_image: ... continue
AfterAcquire(image) == IF image = 0 THEN "top" ELSE "solve"

\* lines 88-93: captcha_image = self.api_client.get_captcha_image()
RAcquire(a) ==
    /\ apc[a] = "acquire"
    /\ \E image \in Images(rmode, attempt[a]) :
         /\ captcha_image' = [captcha_image EXCEPT ![a] = image]
         /\ apc' = [apc EXCEPT ![a] = AfterAcquire(image)]
    /\ acqCalls' = [acqCalls EXCEPT ![a] = @ + 1]
    /\ UNCHANGED <<attempt, captcha, status, redeem_result, lastResp, rmode,
                   solveCalls, submitCalls, solvedOf, submittedOf,
                   gui_stop_flag, raceVars, restVars>>

\* what get_captcha_with_image returns for an image: None (0) or its text
Answers(mode, image) == IF mode = "any" THEN {0, image} ELSE {image}

\* lines 102-106: if not captcha: ... continue
AfterSolve(text) == IF text = 0 THEN "top" ELSE "submit"

\* lines 96-106: captcha = self.captcha_handler.get_captcha_with_image(captcha_image, ...)
RSolve(a) ==
    /\ apc[a] = "solve"
    /\ \E text \in Answers(rmode, captcha_image[a]) :
         /\ captcha' = [captcha EXCEPT ![a] = text]
         /\ apc' = [apc EXCEPT ![a] = AfterSolve(text)]
    /\ solveCalls' = [solveCalls EXCEPT ![a] = @ + 1]
    /\ solvedOf' = [solvedOf EXCEPT ![a][captcha_image[a]] = Bump(@)]
    /\ UNCHANGED <<attempt, captcha_image, status, redeem_result, lastResp, rmode,
                   acqCalls, submitCalls, submittedOf,
                   gui_stop_flag, raceVars, restVars>>

\* self.status at lines 124, 131, 138, 145
StatusOf(outcome) == outcome

\* lines 115-160: submit, classify, return or retry
RSubmit(a) ==
    /\ apc[a] = "submit"
    /\ \E resp \in SubmitResponses(rmode) :
         LET outcome == Classify(resp) IN
         /\ lastResp' = [lastResp EXCEPT ![a] = resp]
         /\ IF Terminal(outcome)
               THEN /\ status' = [status EXCEPT ![a] = StatusOf(outcome)]
                    /\ redeem_result' = [redeem_result EXCEPT ![a] = ResultOf(outcome, resp)]
                    /\ apc' = [apc EXCEPT ![a] = "done"]
               ELSE /\ apc' = [apc EXCEPT ![a] = RetryFrom(outcome)]
                    /\ UNCHANGED <<status, redeem_result>>
    /\ submitCalls' = [submitCalls EXCEPT ![a] = @ + 1]
    /\ submittedOf' = [submittedOf EXCEPT ![a][captcha[a]] = Bump(@)]
    /\ UNCHANGED <<attempt, captcha_image, captcha, rmode,
                   acqCalls, solveCalls, solvedOf,
                   gui_stop_flag, raceVars, restVars>>

RedeemStep(a) ==
    \/ RTop(a)
    \/ RAcquire(a)
    \/ RSolve(a)
    \/ RSubmit(a)

(***************************************************************************)
(* CookiePool.execute_concurrent (cookie_pool.py:207-255) and the end of   *)
(* RedeemController.execute (redeemer.py:189-230).  The thread of execute  *)
(* is at "x_pool" (line 190), "p_enter" (line 226), "p_spawn" (line 240),  *)
(* "p_join" (line 251), "x_count" (line 212), "x_ret".  A redeem_worker    *)
(* thread is "idle", "running" (inside redeemer.redeem), "ended" (it has   *)
(* stored, line 231) or "raised" (redeem raised, the thread died).         *)
(***************************************************************************)
\* the attempts each account of a pool run is followed for
PoolAttempts == 2

\* raceVars without mpc and execResult
fetcherVars == <<stop_flag, success_flag, result_lock, result, error, wpc, wdata,
                 raceNo, joinIdx, announcement_id, envMode, polls, winWrites, lateCalls>>

\* a slot of [None] * len(self.redeemers)
NoSlot == [success |-> FALSE, message |-> "None", data |-> NoResp]

NoData == [success |-> FALSE, success_count |-> 0, total_count |-> 0, results |-> <<>>]

Redeemers == 1..poolSize

\* redeemer.py:190-191: if not self.cookie_pool: return error
XPoolCheck ==
    /\ mpc = "x_pool"
    /\ IF poolSize = 0
          THEN mpc' = "x_ret" /\ execResult' = "no_accounts"
          ELSE mpc' = "p_enter" /\ UNCHANGED execResult
    /\ UNCHANGED <<fetcherVars, acctVars, gui_stop_flag, restVars>>

\* cookie_pool.py:226-227: threads = []; results = [None] * len(self.redeemers)
PEnter ==
    /\ mpc = "p_enter"
    /\ results' = [i \in Redeemers |-> NoSlot]
    /\ pIdx' = 1
    /\ mpc' = "p_spawn"
    /\ poolCalls' = poolCalls + 1
    /\ UNCHANGED <<fetcherVars, execResult, acctVars, matchVars, sinkFails, failedCalls,
                   stopAtEntry, resultBy, capVars, gui_stop_flag, guiVars, execVars,
                   poolSize, wkpc, execData, slotWrites, doneOrder>>

\* lines 240-247: for i, redeemer in enumerate(self.redeemers): thread.start()
PSpawn ==
    /\ mpc = "p_spawn"
    /\ wkpc' = [wkpc EXCEPT ![pIdx] = "running"]
    /\ IF pIdx < poolSize
          THEN pIdx' = pIdx + 1 /\ UNCHANGED mpc
          ELSE pIdx' = 1 /\ mpc' = "p_join"
    /\ UNCHANGED <<fetcherVars, execResult, acctVars, auxVars, gui_stop_flag,
                   guiVars, execVars, poolSize, results, execData, slotWrites, doneOrder>>

\* a redeem_worker that stores in the order of completion
SlotOf_ByCompletion(a) == Len(doneOrder) + 1

\* line 231: results[index] = ...
SlotOf(a) == a

\* a redeem_worker that cancels the other accounts when its own account failed
PStore_CancelOthers(a) ==
    /\ wkpc[a] = "running"
    /\ apc[a] = "done"
    /\ results' = [results EXCEPT ![SlotOf(a)] = redeem_result[a]]
    /\ slotWrites' = [slotWrites EXCEPT ![SlotOf(a)] = Bump(@)]
    /\ doneOrder' = Append(doneOrder, a)
    /\ wkpc' = [wkpc EXCEPT ![a] = "ended"]
    /\ gui_stop_flag' = (gui_stop_flag \/ ~redeem_result[a].success)
    /\ UNCHANGED <<raceVars, acctVars, auxVars, guiVars, execVars, poolSize, pIdx, execData>>

\* lines 229-237: redeem has returned; its value is assigned to the slot of the worker
PStore(a) ==
    /\ wkpc[a] = "running"
    /\ apc[a] = "done"
    /\ results' = [results EXCEPT ![SlotOf(a)] = redeem_result[a]]
    /\ slotWrites' = [slotWrites EXCEPT ![SlotOf(a)] = Bump(@)]
    /\ doneOrder' = Append(doneOrder, a)
    /\ wkpc' = [wkpc EXCEPT ![a] = "ended"]
    /\ UNCHANGED <<raceVars, acctVars, auxVars, gui_stop_flag, guiVars, execVars, poolSize, pIdx, execData>>

\* captcha_handler.py:103: manual_input_callback(captcha_image, "") raises; nothing
\* between it and the thread's run catches (cookie_pool.py:96, 231), the thread dies
PRaise(a) ==
    /\ rmode \in PoolModes
    /\ wkpc[a] = "running"
    /\ apc[a] = "solve"
    /\ wkpc' = [wkpc EXCEPT ![a] = "raised"]
    /\ UNCHANGED <<raceVars, acctVars, auxVars, gui_stop_flag,
                   guiVars, execVars, poolSize, results, pIdx, execData, slotWrites, doneOrder>>

\* the redeem_worker thread of account a
PWorker(a) ==
    \/ wkpc[a] = "running" /\ (REnter(a) \/ RedeemStep(a)) /\ attempt'[a] <= PoolAttempts
    \/ PStore(a)
    \/ PRaise(a)

\* a pool that returns as soon as one thread has ended
Joined_AnyOne(i) == \E j \in Redeemers : wkpc[j] \in {"ended", "raised"}

\* line 252: thread.join() returns when the thread has ended
Joined(i) == wkpc[i] \in {"ended", "raised"}

\* lines 251-255: for thread in threads: thread.join(); return results
PJoin ==
    /\ mpc = "p_join"
    /\ Joined(pIdx)
    /\ IF pIdx < poolSize
          THEN pIdx' = pIdx + 1 /\ UNCHANGED mpc
          ELSE pIdx' = 1 /\ mpc' = "x_count"
    /\ UNCHANGED <<fetcherVars, execResult, acctVars, auxVars, gui_stop_flag,
                   guiVars, execVars, poolSize, results, wkpc, execData, slotWrites, doneOrder>>

\* an aggregation that counts only the accounts whose code was 0
SuccessCount_CodeZeroOnly(rs) ==
    Cardinality({i \in 1..Len(rs) : rs[i] # NoSlot /\ rs[i].message = "success"})

\* redeemer.py:212: sum(1 for r in results if r and r.get("success"))
SuccessCount(rs) ==
    Cardinality({i \in 1..Len(rs) : rs[i] # NoSlot /\ rs[i].success})

\* redeemer.py:212-230: count, and return the success or the failure dict
XCount ==
    /\ mpc = "x_count"
    /\ LET success_count == SuccessCount(results)
           total_count   == Len(results)
       IN  /\ execData' = [success       |-> success_count > 0,
                           success_count |-> success_count,
                           total_count   |-> total_count,
                           results       |-> results]
           /\ execResult' = IF success_count > 0 THEN "success" ELSE "all_failed"
    /\ mpc' = "x_ret"
    /\ UNCHANGED <<fetcherVars, acctVars, auxVars, gui_stop_flag,
                   guiVars, execVars, poolSize, results, wkpc, pIdx, slotWrites, doneOrder>>

PoolStep ==
    \/ XPoolCheck
    \/ PEnter
    \/ PSpawn
    \/ PJoin
    \/ XCount

(***************************************************************************)
(* RedeemController.execute around the race and the pool (redeemer.py:     *)
(* 79-187).  Positions of the main thread: "x_start" (line 84), "x_loop"   *)
(* (line 97), "x_detail" (line 130), "x_extract" (line 160), "x_pool"      *)
(* (line 190), "x_ret" (execute has returned).                             *)
(***************************************************************************)
\* the detail and extraction calls the model follows
MaxTries == 2

\* what api_client.get_announcement_detail returns (api_client.py:191-240): None,
\* result['data'] with or without a password in its text, or the default {} of
\* line 230
Details == {0, 1, 2, 3}

\* password_extractor.extract_password on the content of a detail
ExtractPassword(d) == IF d = 1 THEN 1 ELSE 0

\* a keyword check that lets every configuration pass
KeywordMissing_Never == FALSE

\* line 90: if not keyword
KeywordMissing == cfgKeyword = <<>>

\* redeemer.py:236-245: _update_progress calls the callback without a try
SinkRaises == sinkFails

\* lines 84-91 and 232-234: the first progress message, whose exception the except
\* clause of execute turns into the error result, and the keyword check
XStart ==
    /\ mpc = "x_start"
    /\ CASE SinkRaises     -> mpc' = "x_ret" /\ execResult' = ExceptClause("sink")
         [] KeywordMissing -> mpc' = "x_ret" /\ execResult' = "no_keyword"
         [] OTHER          -> mpc' = "x_loop" /\ UNCHANGED execResult
    /\ stopAtEntry' = gui_stop_flag
    /\ UNCHANGED <<fetcherVars, gui_stop_flag, acctVars, poolVars, guiVars, execVars,
                   matchVars, sinkFails, failedCalls, poolCalls, resultBy, capVars>>

\* lines 130-133: the cancellation check at the top of the detail loop
XDetailCancel ==
    /\ mpc = "x_detail"
    /\ gui_stop_flag
    /\ execResult' = "cancelled"
    /\ mpc' = "x_ret"
    /\ UNCHANGED <<fetcherVars, gui_stop_flag, acctVars, restVars>>

\* lines 130 and 135-154: one detail call; a truthy detail breaks out of the loop,
\* None polls again, the empty payload takes the retry branch but ends the loop at
\* its condition "while detail is None"
XDetailFetch ==
    /\ mpc = "x_detail"
    /\ ~gui_stop_flag
    /\ detailCalls < MaxTries
    /\ \E d \in Details :
         /\ detail' = d
         /\ mpc' = IF d # 0 THEN "x_extract" ELSE "x_detail"
    /\ detailCalls' = detailCalls + 1
    /\ UNCHANGED <<fetcherVars, execResult, gui_stop_flag, acctVars, auxVars, poolVars, guiVars,
                   cfgKeyword, password, extractCalls, notFound>>

\* lines 160-163: the cancellation check at the top of the extraction loop
XExtractCancel ==
    /\ mpc = "x_extract"
    /\ gui_stop_flag
    /\ execResult' = "cancelled"
    /\ mpc' = "x_ret"
    /\ UNCHANGED <<fetcherVars, gui_stop_flag, acctVars, restVars>>

\* an extraction loop that asks for the detail again after a failed extraction
XExtract_Refetch ==
    /\ mpc = "x_extract"
    /\ ~gui_stop_flag
    /\ extractCalls < MaxTries
    /\ password' = ExtractPassword(detail)
    /\ mpc' = IF ExtractPassword(detail) # 0 THEN "x_pool" ELSE "x_extract"
    /\ extractCalls' = extractCalls + 1
    /\ IF ExtractPassword(detail) # 0
          THEN UNCHANGED <<detail, detailCalls>>
          ELSE /\ detail' \in Details \ {0}
               /\ detailCalls' = detailCalls + 1
    /\ UNCHANGED <<fetcherVars, execResult, gui_stop_flag, acctVars, auxVars, poolVars, guiVars,
                   cfgKeyword, notFound>>

\* lines 165-187: one extraction on the same detail
XExtract ==
    /\ mpc = "x_extract"
    /\ ~gui_stop_flag
    /\ extractCalls < MaxTries
    /\ password' = ExtractPassword(detail)
    /\ mpc' = IF ExtractPassword(detail) # 0 THEN "x_pool" ELSE "x_extract"
    /\ extractCalls' = extractCalls + 1
    /\ UNCHANGED <<fetcherVars, execResult, gui_stop_flag, acctVars, auxVars, poolVars, guiVars,
                   cfgKeyword, detail, detailCalls, notFound>>

ExecStep ==
    \/ XStart
    \/ XDetailCancel
    \/ XDetailFetch
    \/ XExtractCancel
    \/ XExtract
    \/ XPoolCheck

(***************************************************************************)
(* The GUI's start, stop and scheduled start (gui.py:560-621, 1087-1182).  *)
(* A run is one _execute_redeem thread: "none" (not started), "running"    *)
(* (inside controller.execute, with its race workers and account loops),   *)
(* "queued" (the thread has ended, the callbacks of its finally block are  *)
(* queued on the Tk loop), "ended".  The scheduler is "none", "waiting"    *)
(* (the _wait_and_start thread sleeps), "cancelling" (schedule_stop_event  *)
(* is set, the thread has not yet seen it) or "fired" (_scheduled_start is *)
(* queued on the Tk loop).                                                 *)
(***************************************************************************)
\* the runs the model follows
MaxRuns == 2

Runs == 1..MaxRuns

\* the thread, its race workers and its account loops still read the stop flag
Alive(r) == runs[r] = "running"

\* line 575: self.stop_flag.clear()
FlagAfterStart == FALSE

\* lines 560-585: _start_execution, called by the button or by _scheduled_start
StartExecution ==
    IF ~configValid
       THEN UNCHANGED <<gui_stop_flag, start_btn, stop_btn, runs, configValid>>
       ELSE /\ \E r \in Runs :
                 /\ runs[r] = "none"
                 /\ \A q \in 1..(r - 1) : runs[q] # "none"
                 /\ runs' = [runs EXCEPT ![r] = "running"]
            /\ gui_stop_flag' = FlagAfterStart
            /\ start_btn' = FALSE
            /\ stop_btn' = TRUE
            /\ UNCHANGED configValid

\* the user presses the start button
GStart ==
    /\ start_btn
    /\ StartExecution
    /\ UNCHANGED <<raceVars, acctVars, auxVars, poolVars, execVars, schedVars>>

\* redeemer.py:99-100, 132-133, 162-163 and cookie_pool.py:80-82: the run sees the
\* stop flag set at its next check, execute returns, the thread ends (gui.py:618-621)
GRunCancelled(r) ==
    /\ Alive(r)
    /\ gui_stop_flag
    /\ runs' = [runs EXCEPT ![r] = "queued"]
    /\ UNCHANGED <<raceVars, acctVars, auxVars, poolVars, execVars, gui_stop_flag,
                   start_btn, stop_btn, schedVars, configValid>>

\* execute returns its success or failure result, the thread ends (gui.py:607-621)
GRunReturns(r) ==
    /\ Alive(r)
    /\ runs' = [runs EXCEPT ![r] = "queued"]
    /\ UNCHANGED <<raceVars, acctVars, auxVars, poolVars, execVars, gui_stop_flag,
                   start_btn, stop_btn, schedVars, configValid>>

\* gui.py:620-621: the queued callbacks enable start and disable stop
GAfterRun(r) ==
    /\ runs[r] = "queued"
    /\ runs' = [runs EXCEPT ![r] = "ended"]
    /\ start_btn' = TRUE
    /\ stop_btn' = FALSE
    /\ UNCHANGED <<raceVars, acctVars, auxVars, poolVars, execVars, gui_stop_flag, schedVars, configValid>>

\* the schedules the model follows
MaxSchedules == 2

Schedules == 1..MaxSchedules

\* gui.py:1143-1151: _cancel_schedule sets the event and enables the start button;
\* a _scheduled_start that is already queued stays queued
CancelSchedule ==
    /\ schedule_stop_event' = TRUE
    /\ schedCancelled' = schedCancelled \cup {schedNo}
    /\ start_btn' = TRUE
    /\ UNCHANGED <<sched, schedNo, startQueued>>

\* gui.py:1087-1141: the schedule button: cancel while the scheduler thread is
\* alive (1090-1092), else arm a new schedule when the configuration is valid
GToggleSchedule ==
    /\ CASE sched # "none" ->
                 CancelSchedule
         [] sched = "none" /\ configValid /\ schedNo < MaxSchedules ->
                 /\ schedule_stop_event' = FALSE
                 /\ start_btn' = FALSE
                 /\ sched' = "waiting"
                 /\ schedNo' = schedNo + 1
                 /\ UNCHANGED <<schedCancelled, startQueued>>
         [] OTHER -> UNCHANGED <<sched, schedule_stop_event, schedNo, schedCancelled,
                                 startQueued, start_btn>>
    /\ UNCHANGED <<raceVars, acctVars, auxVars, poolVars, execVars, gui_stop_flag,
                   stop_btn, runs, configValid, schedStarts>>

\* gui.py:1156-1165: _wait_and_start sees the stop event and returns (1158-1159, or
\* 1165 at the target time), or reaches the target time and finds the event clear
GTimer ==
    /\ sched = "waiting"
    /\ sched' = IF schedule_stop_event THEN "none" ELSE "firing"
    /\ UNCHANGED <<raceVars, acctVars, auxVars, poolVars, execVars, gui_stop_flag,
                   start_btn, stop_btn, runs, configValid, schedule_stop_event, schedNo,
                   startQueued, schedCancelled, schedStarts>>

\* gui.py:1166: self.root.after(0, self._scheduled_start), and the thread ends
GTimerFire ==
    /\ sched = "firing"
    /\ startQueued' = startQueued \cup {schedNo}
    /\ sched' = "none"
    /\ UNCHANGED <<raceVars, acctVars, auxVars, poolVars, execVars, gui_stop_flag,
                   start_btn, stop_btn, runs, configValid, schedule_stop_event, schedNo,
                   schedCancelled, schedStarts>>

\* gui.py:1171-1182: _scheduled_start calls _start_execution, whatever the buttons
GScheduledStart ==
    /\ \E k \in startQueued :
         /\ \A q \in startQueued : k <= q
         /\ startQueued' = startQueued \ {k}
         /\ schedStarts' = [schedStarts EXCEPT ![k] = Bump(@)]
    /\ StartExecution
    /\ UNCHANGED <<raceVars, acctVars, auxVars, poolVars, execVars, sched,
                   schedule_stop_event, schedNo, schedCancelled>>

GuiStep ==
    \/ GStart
    \/ StopExecution
    \/ \E r \in Runs : GRunCancelled(r) \/ GRunReturns(r) \/ GAfterRun(r)
    \/ GToggleSchedule
    \/ GTimer
    \/ GTimerFire
    \/ GScheduledStart

(***************************************************************************)
(* The keyword match of fetch_announcement_list (announcement_fetcher.py:  *)
(* 134-151) on an arbitrary list and keyword.  A title and a keyword are   *)
(* sequences of characters; an item is a title with an id.                 *)
(***************************************************************************)
\* the items of a list and the characters of a title or keyword
MaxItems == 2
MaxTitleLen == 2

Chars == {"a", "b"}

Texts == UNION { [1..n -> Chars] : n \in 0..MaxTitleLen }

ItemIds == {10, 11}

Items == [title : Texts, id : ItemIds]

Lists == UNION { [1..n -> Items] : n \in 0..MaxItems }

\* a match that returns the last matching item
MatchIn_LastWins(list, keyword) ==
    IF \E i \in 1..Len(list) : Contains(list[i].title, keyword)
       THEN list[CHOOSE i \in 1..Len(list) :
                   /\ Contains(list[i].title, keyword)
                   /\ \A j \in (i + 1)..Len(list) : ~Contains(list[j].title, keyword)].id
       ELSE 0

\* lines 137-149: for announcement in announcement_list: if keyword in title: return id
MatchIn(list, keyword) == FirstMatch(list, keyword, 1)

\* lines 134-149 on self.result holding mList
MatchCall ==
    /\ mOut = -1
    /\ mOut' = MatchIn(mList, mKey)
    /\ UNCHANGED <<mList, mKey, sinkFails, failedCalls, poolCalls, stopAtEntry, resultBy,
                   capVars, raceVars, acctVars, gui_stop_flag,
                   poolVars, guiVars, execVars>>

(***************************************************************************)
(* Manual challenge entry: RockKingdomGUI._show_captcha_input (gui.py:     *)
(* 647-669), called in the thread of each account through                  *)
(* get_captcha_with_image (captcha_handler.py:103), and the window of      *)
(* _create_captcha_window (671-728) in the GUI thread.  An image is the    *)
(* pair of the account and the number of its request; the text the user    *)
(* types for an image is written as that image.                            *)
(* Positions of an account: "idle" (not in the callback), "set" (line      *)
(* 660), "queue" (663), "wait" (666), "read" (668).                        *)
(***************************************************************************)
\* the requests per account the model follows
MaxManual == 2

\* what the callback and the window leave alone
otherVars == <<matchVars, sinkFails, failedCalls, poolCalls, stopAtEntry, resultBy,
               raceVars, acctVars, gui_stop_flag, poolVars, guiVars, execVars>>

NoImage == <<0, 0>>

\* line 659: self.captcha_ready_event.clear()
CClear(a) ==
    /\ cpc[a] = "idle"
    /\ creq[a] < MaxManual
    /\ creq' = [creq EXCEPT ![a] = @ + 1]
    /\ captcha_ready_event' = FALSE
    /\ cpc' = [cpc EXCEPT ![a] = "set"]
    /\ UNCHANGED <<captcha_input_var, captcha_window, afterQueue, cans, submits, releases,
                   otherVars>>

\* line 660: self.captcha_input_var.set("")
CResetVar(a) ==
    /\ cpc[a] = "set"
    /\ captcha_input_var' = NoImage
    /\ cpc' = [cpc EXCEPT ![a] = "queue"]
    /\ UNCHANGED <<captcha_ready_event, captcha_window, afterQueue, creq, cans,
                   submits, releases,
                   otherVars>>

\* line 663: self.root.after(0, lambda: self._create_captcha_window(image_data, ...))
CQueue(a) ==
    /\ cpc[a] = "queue"
    /\ afterQueue' = Append(afterQueue, <<a, creq[a]>>)
    /\ cpc' = [cpc EXCEPT ![a] = "wait"]
    /\ UNCHANGED <<captcha_ready_event, captcha_input_var, captcha_window, creq, cans,
                   submits, releases,
                   otherVars>>

\* line 666: self.captcha_ready_event.wait() returns
CWake(a) ==
    /\ cpc[a] = "wait"
    /\ captcha_ready_event
    /\ releases' = releases + 1
    /\ cpc' = [cpc EXCEPT ![a] = "read"]
    /\ UNCHANGED <<captcha_ready_event, captcha_input_var, captcha_window, afterQueue,
                   creq, cans, submits,
                   otherVars>>

\* lines 668-669: result = self.captcha_input_var.get(); return result
CRead(a) ==
    /\ cpc[a] = "read"
    /\ cans' = [cans EXCEPT ![a] = captcha_input_var]
    /\ cpc' = [cpc EXCEPT ![a] = "idle"]
    /\ UNCHANGED <<captcha_ready_event, captcha_input_var, captcha_window, afterQueue,
                   creq, submits, releases,
                   otherVars>>

\* lines 671-677: the queued _create_captcha_window runs: an open window is
\* destroyed, the new one shows the image
CreateCaptchaWindow ==
    /\ afterQueue # <<>>
    /\ captcha_window' = Head(afterQueue)
    /\ afterQueue' = Tail(afterQueue)
    /\ UNCHANGED <<captcha_ready_event, captcha_input_var, cpc, creq, cans,
                   submits, releases,
                   otherVars>>

\* lines 715-722: the user types the text of the image shown and submits
Submit ==
    /\ captcha_window # NoImage
    /\ captcha_input_var' = captcha_window
    /\ captcha_window' = NoImage
    /\ captcha_ready_event' = TRUE
    /\ submits' = submits + 1
    /\ UNCHANGED <<afterQueue, cpc, creq, cans, releases,
                   otherVars>>

CaptchaStep ==
    \/ \E a \in Accounts : CClear(a) \/ CResetVar(a) \/ CQueue(a) \/ CWake(a) \/ CRead(a)
    \/ CreateCaptchaWindow
    \/ Submit

(***************************************************************************)
(* Initial states and specifications.                                      *)
(***************************************************************************)
\* gui.py:51-53: no window, the event clear, the input empty; no account is in
\* the callback
InitCapVars ==
    /\ captcha_ready_event = FALSE
    /\ captcha_input_var = NoImage
    /\ captcha_window = NoImage
    /\ afterQueue = <<>>
    /\ cpc = [a \in Accounts |-> "idle"]
    /\ creq = [a \in Accounts |-> 0]
    /\ cans = [a \in Accounts |-> NoImage]
    /\ submits = 0
    /\ releases = 0

InitFetcherVars ==
    /\ stop_flag = FALSE
    /\ success_flag = FALSE
    /\ result_lock = NoThread
    /\ result = 0
    /\ error = NoThread
    /\ wpc = [w \in Threads |-> "idle"]
    /\ wdata = [w \in Threads |-> 0]
    /\ raceNo = 0
    /\ joinIdx = 0
    /\ announcement_id = 0
    /\ execResult = "none"
    /\ winWrites = 0
    /\ lateCalls = [w \in Threads |-> 0]

\* execute is at the top of its discovery loop (redeemer.py:97)
InitRaceVars ==
    /\ InitFetcherVars
    /\ mpc = "x_loop"

InitAcctVars ==
    /\ apc = [a \in Accounts |-> "idle"]
    /\ attempt = [a \in Accounts |-> 0]
    /\ captcha_image = [a \in Accounts |-> 0]
    /\ captcha = [a \in Accounts |-> 0]
    /\ status = [a \in Accounts |-> "standby"]
    /\ redeem_result = [a \in Accounts |-> NoResult]
    /\ lastResp = [a \in Accounts |-> NoResp]
    /\ acqCalls = [a \in Accounts |-> 0]
    /\ solveCalls = [a \in Accounts |-> 0]
    /\ submitCalls = [a \in Accounts |-> 0]
    /\ solvedOf = [a \in Accounts |-> [c \in 0..MaxAttempts |-> 0]]
    /\ submittedOf = [a \in Accounts |-> [c \in 0..MaxAttempts |-> 0]]

InitPoolVars ==
    /\ results = <<>>
    /\ wkpc = [a \in Accounts |-> "idle"]
    /\ pIdx = 0
    /\ execData = NoData
    /\ slotWrites = [a \in Accounts |-> 0]
    /\ doneOrder = <<>>

\* gui.py:59-60: no scheduler thread, the event clear
InitSchedVars ==
    /\ sched = "none"
    /\ schedule_stop_event = FALSE
    /\ schedNo = 0
    /\ startQueued = {}
    /\ schedCancelled = {}
    /\ schedStarts = [k \in Schedules |-> 0]

\* a run was started from the GUI and executes: start disabled, stop enabled
InitGuiVars ==
    /\ start_btn = FALSE
    /\ stop_btn = TRUE
    /\ runs = [r \in Runs |-> IF r = 1 THEN "running" ELSE "none"]
    /\ InitSchedVars
    /\ configValid = TRUE

\* execute has checked its keyword and not yet fetched a detail
InitExecVars ==
    /\ cfgKeyword = Keyword
    /\ detail = 0
    /\ password = 0
    /\ detailCalls = 0
    /\ extractCalls = 0
    /\ notFound = 0

\* no list is being matched
InitMatchVars ==
    /\ mList = <<>>
    /\ mKey = Keyword
    /\ mOut = -1

InitAuxVars ==
    /\ InitMatchVars
    /\ sinkFails = FALSE
    /\ failedCalls = [w \in Threads |-> 0]
    /\ poolCalls = 0
    /\ stopAtEntry = FALSE
    /\ resultBy = NoThread
    /\ InitCapVars

InitRestVars ==
    /\ InitPoolVars
    /\ InitGuiVars
    /\ InitExecVars
    /\ InitAuxVars

\* The race: execute's discovery loop, the fetcher and its workers, the stop button.
InitRace ==
    /\ InitRaceVars
    /\ InitAcctVars
    /\ InitRestVars
    /\ poolSize = NAccounts
    /\ envMode \in RaceModes
    /\ polls = MaxRaces
    /\ rmode = "any"
    /\ gui_stop_flag = FALSE

NextRace ==
    \/ MainStep
    \/ \E w \in Threads : WorkerStep(w)
    \/ StopExecution

SpecRace == InitRace /\ [][NextRace]_vars

\* Threads run: each live thread takes its next step, each remote call returns.
\* The user need not press stop.
SpecRaceFair ==
    /\ SpecRace
    /\ WF_vars(MainStep)
    /\ \A w \in Threads : WF_vars(WorkerStep(w))

\* One call of fetch_announcement_list: the first poll of execute's discovery loop,
\* its workers, the stop button.
InitFetch ==
    /\ InitRaceVars
    /\ InitAcctVars
    /\ InitRestVars
    /\ poolSize = NAccounts
    /\ envMode \in RaceModes
    /\ polls = 1
    /\ rmode = "any"
    /\ gui_stop_flag = FALSE

SpecFetch == InitFetch /\ [][NextRace]_vars

SpecFetchFair ==
    /\ SpecFetch
    /\ WF_vars(MainStep)
    /\ \A w \in Threads : WF_vars(WorkerStep(w))

\* One call of CookieRedeemer.redeem on an arbitrary account of the pool, and the
\* stop button.
InitRedeem ==
    /\ InitRaceVars
    /\ InitAcctVars
    /\ InitRestVars
    /\ poolSize = NAccounts
    /\ envMode = "any"
    /\ polls = MaxRaces
    /\ rmode \in RedeemModes
    /\ gui_stop_flag = FALSE

RedeemCall(a) ==
    \/ (\A b \in Accounts : apc[b] = "idle") /\ REnter(a)
    \/ RedeemStep(a)

NextRedeem ==
    \/ \E a \in Accounts : RedeemCall(a)
    \/ StopExecution

SpecRedeem == InitRedeem /\ [][NextRedeem]_vars

\* The pool stage of execute: the password is extracted, execute is at line 190 with
\* one to NAccounts cookies configured; the accounts, the stop button.
InitPool ==
    /\ InitFetcherVars
    /\ mpc = "x_pool"
    /\ InitAcctVars
    /\ InitPoolVars
    /\ InitAuxVars
    /\ InitGuiVars
    /\ cfgKeyword = Keyword
    /\ detail = 1
    /\ password = 1
    /\ detailCalls = 0
    /\ extractCalls = 0
    /\ notFound = 0
    /\ poolSize \in 1..NAccounts
    /\ envMode = "any"
    /\ polls = MaxRaces
    /\ rmode \in PoolModes
    /\ gui_stop_flag = FALSE

NextPool ==
    \/ PoolStep
    \/ \E a \in Redeemers : PWorker(a)
    \/ StopExecution

SpecPool == InitPool /\ [][NextPool]_vars

\* the steps of the program's threads, without the stop button
PoolProgram ==
    \/ PoolStep
    \/ \E a \in Redeemers : PWorker(a)

\* The program runs: while one of its threads can take a step, some thread does
\* (each collaborator call in flight returns).  The user need not press stop.
SpecPoolFair ==
    /\ SpecPool
    /\ WF_vars(PoolProgram)

\* The GUI after construction (gui.py:53-60, 308-311): nothing runs, start is
\* enabled, stop disabled; the user, the runs and the scheduler act.
InitGui ==
    /\ InitFetcherVars
    /\ mpc = "x_loop"
    /\ InitAcctVars
    /\ InitPoolVars
    /\ InitAuxVars
    /\ InitExecVars
    /\ poolSize = NAccounts
    /\ envMode = "any"
    /\ polls = MaxRaces
    /\ rmode = "any"
    /\ gui_stop_flag = FALSE
    /\ start_btn = TRUE
    /\ stop_btn = FALSE
    /\ runs = [r \in Runs |-> "none"]
    /\ InitSchedVars
    /\ configValid \in BOOLEAN

SpecGui == InitGui /\ [][GuiStep]_vars

\* execute from its first line to the hand-over to the pool: the keyword check, one
\* poll of the discovery loop with its race, the detail and extraction loops, the
\* cookie pool check; any keyword and any number of cookies, none included.
InitExec ==
    /\ InitFetcherVars
    /\ mpc = "x_start"
    /\ InitAcctVars
    /\ InitPoolVars
    /\ InitAuxVars
    /\ InitGuiVars
    /\ cfgKeyword \in {<<>>, Keyword}
    /\ detail = 0
    /\ password = 0
    /\ detailCalls = 0
    /\ extractCalls = 0
    /\ notFound = 0
    /\ poolSize \in 0..NAccounts
    /\ envMode = "any"
    /\ polls = 1
    /\ rmode = "any"
    /\ gui_stop_flag = FALSE

NextExec ==
    \/ ExecStep
    \/ MainStep
    \/ \E w \in Threads : WorkerStep(w)
    \/ StopExecution

SpecExec == InitExec /\ [][NextExec]_vars

\* The discovery loop against a server whose every answer is a list without the
\* keyword (several polls), or whose every answer is the invalid-session error
\* (the first poll ends execute).
InitNoMatch ==
    /\ InitRaceVars
    /\ InitAcctVars
    /\ InitRestVars
    /\ poolSize = NAccounts
    /\ envMode \in {"nomatch", "invalid"}
    /\ polls = IF envMode = "nomatch" THEN MaxRaces ELSE 1
    /\ rmode = "any"
    /\ gui_stop_flag = FALSE

SpecNoMatch == InitNoMatch /\ [][NextRace]_vars

\* the threads of the program, without the user
RaceProgram == MainStep \/ \E w \in Threads : WorkerStep(w)

\* Threads run: while a thread of the program can take a step, one does.
SpecNoMatchFair == SpecNoMatch /\ WF_vars(RaceProgram)

\* fetch_announcement_list's keyword match on any list and any keyword
InitMatch ==
    /\ InitRaceVars
    /\ InitAcctVars
    /\ InitPoolVars
    /\ InitGuiVars
    /\ InitExecVars
    /\ poolSize = NAccounts
    /\ envMode = "any"
    /\ polls = 1
    /\ rmode = "any"
    /\ gui_stop_flag = FALSE
    /\ mList \in Lists
    /\ mKey \in Texts
    /\ mOut = -1
    /\ sinkFails = FALSE
    /\ failedCalls = [w \in Threads |-> 0]
    /\ poolCalls = 0
    /\ stopAtEntry = FALSE
    /\ resultBy = NoThread
    /\ InitCapVars

SpecMatch == InitMatch /\ [][MatchCall]_vars

\* execute as in SpecExec, called with a progress callback that always returns or
\* with one that raises whenever it is invoked
InitSink ==
    /\ InitFetcherVars
    /\ mpc = "x_start"
    /\ InitAcctVars
    /\ InitPoolVars
    /\ InitGuiVars
    /\ InitExecVars
    /\ InitMatchVars
    /\ sinkFails \in BOOLEAN
    /\ failedCalls = [w \in Threads |-> 0]
    /\ poolCalls = 0
    /\ stopAtEntry = FALSE
    /\ resultBy = NoThread
    /\ InitCapVars
    /\ poolSize = NAccounts
    /\ envMode = "any"
    /\ polls = 1
    /\ rmode = "any"
    /\ gui_stop_flag = FALSE

SpecSink == InitSink /\ [][NextExec]_vars

\* execute from its first line to its return: the keyword check, one poll of the
\* discovery loop with its race, the detail and extraction loops, the pool with its
\* account loops, the aggregation; and the stop button.
InitRun ==
    /\ InitFetcherVars
    /\ mpc = "x_start"
    /\ InitAcctVars
    /\ InitPoolVars
    /\ InitGuiVars
    /\ InitExecVars
    /\ InitAuxVars
    /\ poolSize \in 1..NAccounts
    /\ envMode = "any"
    /\ polls = 1
    /\ rmode \in PoolModes
    /\ gui_stop_flag = FALSE

NextRun ==
    \/ ExecStep
    \/ MainStep
    \/ \E w \in Threads : WorkerStep(w)
    \/ PoolStep
    \/ \E a \in Redeemers : PWorker(a)
    \/ StopExecution

SpecRun == InitRun /\ [][NextRun]_vars

\* The accounts of a pool in manual mode call the challenge callback, the GUI
\* thread opens the windows, the user submits.
InitCaptcha ==
    /\ InitRaceVars
    /\ InitAcctVars
    /\ InitRestVars
    /\ poolSize = NAccounts
    /\ envMode = "any"
    /\ polls = 1
    /\ rmode = "any"
    /\ gui_stop_flag = FALSE

SpecCaptcha == InitCaptcha /\ [][CaptchaStep]_vars

Spec == SpecRace


(***************************************************************************)
(* The race: claims C1 to C4.                                              *)
(***************************************************************************)

\* C1: within one call of fetch_announcement_list the workers started by that call
\* assign self.result at most once, whatever their number and interleaving: a
\* worker that holds a usable payload after another worker has claimed the win
\* slot discards it.
C1_SingleWinner == winWrites <= 1

\* two workers of the running call have ended holding a payload, one write was made
C1_Witness ==
    /\ winWrites = 1
    /\ \E v, w \in CurrentThreads :
         /\ v # w
         /\ wpc[v] = "done" /\ wdata[v] # 0
         /\ wpc[w] = "done" /\ wdata[w] # 0

C3_CancelEndsRace ==
    (envMode = "retry" /\ gui_stop_flag /\ InFetch)
        ~> (mpc = "x_ret" /\ execResult = "cancelled")

\* C4: when every discovery call raises InvalidSessionError, fetch_announcement_list
\* never gets to its keyword match (it returns neither an id nor None), and it
\* eventually raises the recorded error, with every worker ended.
C4_InvalidSessionTerminates ==
    /\ [](envMode = "invalid" => mpc \notin {"f_rd_res", "x_detail"} /\ announcement_id = 0)
    /\ (envMode = "invalid" /\ InFetch)
          ~> (/\ mpc = "x_ret"
              /\ execResult = "exception"
              /\ error # NoThread
              /\ \A w \in Threads : wpc[w] \in {"idle", "done"})

\* the race has ended by raising the recorded error
C4_Witness ==
    /\ envMode = "invalid"
    /\ mpc = "x_ret"
    /\ execResult = "exception"
    /\ \A w \in CurrentThreads : wpc[w] = "done"


(***************************************************************************)
(* The per-account loop: claims C5 to C10.  The claims read the response   *)
(* itself (its keys and its text), not the redeemer's classification.      *)
(***************************************************************************)
HasCode(resp, c) == resp.ret = <<c>>

QualifiedText(resp) ==
    /\ resp.sMsg # <<>>
    /\ \E i \in 1..Len(resp.sMsg[1]) : resp.sMsg[1][i] \in {"QUAL_A", "QUAL_B"}

CallsOf(a) == <<acqCalls[a], solveCalls[a], submitCalls[a]>>

\* C5: when the stop flag is set as an account is at the top of its loop, its next
\* step returns the cancelled result (success false, status stopped) and makes no
\* call of get_captcha_image, get_captcha_with_image or redeem_code.
C5_CancelAtEntry ==
    [][\A a \in Accounts :
         (apc[a] = "top" /\ gui_stop_flag /\ apc'[a] # "top") =>
            /\ apc'[a] = "done"
            /\ redeem_result'[a] = CancelledResult
            /\ status'[a] = "stopped"
            /\ CallsOf(a)' = CallsOf(a)]_vars

\* an account was cancelled at the entry of its third iteration
C5_Witness ==
    \E a \in Accounts :
        /\ apc[a] = "done"
        /\ redeem_result[a] = CancelledResult
        /\ attempt[a] = 2
        /\ submitCalls[a] = 2

C7_QualifiedMessageFirst ==
    [][\A a \in Accounts :
         (apc[a] = "submit" /\ apc'[a] # "submit"
            /\ QualifiedText(lastResp'[a]) /\ ~HasCode(lastResp'[a], 0)) =>
            /\ apc'[a] = "done"
            /\ redeem_result'[a].success
            /\ redeem_result'[a].message = "qualified"
            /\ status'[a] = "qualified"]_vars

\* an account ended qualified on a response with code 100001
C7_Witness ==
    \E a \in Accounts :
        /\ apc[a] = "done"
        /\ HasCode(lastResp[a], 100001)
        /\ QualifiedText(lastResp[a])
        /\ redeem_result[a].success
        /\ redeem_result[a].message = "qualified"

\* C8: a response with code 100001 and no qualified text ends redeem with success
\* false and the limit result, and an account that has returned makes no further
\* call and keeps its result.
C8_QuotaExhaustedIsFinal ==
    /\ [][\A a \in Accounts :
            (apc[a] = "submit" /\ apc'[a] # "submit"
               /\ HasCode(lastResp'[a], 100001) /\ ~QualifiedText(lastResp'[a])) =>
               /\ apc'[a] = "done"
               /\ ~redeem_result'[a].success
               /\ redeem_result'[a].message = "limit"
               /\ status'[a] = "limit"]_vars
    /\ [][\A a \in Accounts :
            apc[a] = "done" =>
               /\ apc'[a] = "done"
               /\ CallsOf(a)' = CallsOf(a)
               /\ redeem_result'[a] = redeem_result[a]]_vars

\* an account ended with the limit result
C8_Witness ==
    \E a \in Accounts :
        /\ apc[a] = "done"
        /\ HasCode(lastResp[a], 100001)
        /\ ~redeem_result[a].success
        /\ redeem_result[a].message = "limit"

C10_ChallengeUsedOnce ==
    \A a \in Accounts :
        /\ \A c \in 0..MaxAttempts : solvedOf[a][c] <= 1 /\ submittedOf[a][c] <= 1
        /\ solvedOf[a][0] = 0 /\ submittedOf[a][0] = 0
        /\ apc[a] = "solve" =>
              /\ captcha_image[a] = attempt[a]
              /\ solvedOf[a][attempt[a]] = 0
        /\ apc[a] = "submit" =>
              /\ captcha[a] = attempt[a]
              /\ captcha_image[a] = attempt[a]
              /\ solvedOf[a][attempt[a]] = 1
              /\ submittedOf[a][attempt[a]] = 0

\* a failed solve in the first iteration, a wrong answer in the second, and the
\* third iteration has fetched its own image
C10_Witness ==
    \E a \in Accounts :
        /\ solvedOf[a][1] = 1 /\ submittedOf[a][1] = 0
        /\ solvedOf[a][2] = 1 /\ submittedOf[a][2] = 1
        /\ apc[a] = "solve" /\ attempt[a] = 3


(***************************************************************************)
(* The pool: claims C11 to C16.                                            *)
(***************************************************************************)
\* execute_concurrent has returned (execute is counting or has returned after it)
PoolReturned == mpc = "x_count" \/ execData # NoData

C12_EverySlotWrittenOnce ==
    PoolReturned =>
        \A i \in Redeemers : results[i] # NoSlot /\ slotWrites[i] = 1

AcctState(b) ==
    <<apc[b], attempt[b], captcha_image[b], captcha[b], status[b],
      redeem_result[b], lastResp[b]>>

SucceededAccounts ==
    {i \in Redeemers : apc[i] = "done" /\ redeem_result[i].message \in {"success", "qualified"}}

InLoop(a) == apc[a] \in {"top", "acquire", "solve", "submit"}

PoolRunning == mpc \in {"p_enter", "p_spawn", "p_join"}

C17_TokenNeverUnsetDuringRun ==
    [][(gui_stop_flag /\ \E r \in Runs : Alive(r)) => gui_stop_flag']_vars

(***************************************************************************)
(* C18 - C20.  execute's preconditions and its discovery loop.             *)
(***************************************************************************)
\* no race worker was spawned and no discovery, detail, extraction, challenge or
\* submit operation was invoked
NothingInvoked ==
    /\ raceNo = 0
    /\ \A w \in Threads : wpc[w] = "idle" /\ lateCalls[w] = 0
    /\ detailCalls = 0
    /\ extractCalls = 0
    /\ \A a \in Accounts : apc[a] = "idle" /\ wkpc[a] = "idle" /\ CallsOf(a) = <<0, 0, 0>>

\* C18: when no keyword is configured, execute returns the failure result at its
\* keyword check: it is never anywhere else than at its first line or returned with
\* that failure, and no race worker, discovery, detail, extraction, challenge or
\* submit operation ever happens.
C18_NoKeywordFailsFirst ==
    cfgKeyword = <<>> =>
        /\ mpc \in {"x_start", "x_ret"}
        /\ mpc = "x_ret" => (execResult = "no_keyword" /\ execData = NoData)
        /\ NothingInvoked

\* execute has returned the keyword failure
C18_Witness ==
    /\ cfgKeyword = <<>>
    /\ mpc = "x_ret"
    /\ execResult = "no_keyword"
    /\ NothingInvoked

\* C19: when no cookie is configured, no race worker is spawned and no discovery,
\* detail or extraction operation is invoked before execute returns its failure.
C19_NoAccountsFailsFirst ==
    poolSize = 0 =>
        /\ raceNo = 0
        /\ \A w \in Threads : wpc[w] = "idle"
        /\ detailCalls = 0
        /\ extractCalls = 0

\* C20: when every discovery call returns a list without the keyword, the discovery
\* stage never fails and never advances to the detail stage; every poll starts one
\* race and ends with one 'not found' message, back at the loop entry; at the loop
\* entry execute returns the cancelled result if the stop flag is set and starts
\* the next race otherwise; once the stop flag is set execute returns the cancelled
\* result.
C20_NoMatchLoops ==
    /\ [](envMode = "nomatch" =>
            /\ mpc \notin {"x_detail", "x_extract", "x_pool"}
            /\ announcement_id = 0
            /\ error = NoThread
            /\ execResult \in {"none", "cancelled"}
            /\ mpc = "x_ret" => (execResult = "cancelled" /\ gui_stop_flag)
            /\ notFound = IF InFetch THEN raceNo - 1 ELSE raceNo)
    /\ [][(envMode = "nomatch" /\ mpc = "x_loop" /\ mpc' # "x_loop") =>
             IF gui_stop_flag
                THEN mpc' = "x_ret" /\ execResult' = "cancelled" /\ raceNo' = raceNo
                ELSE mpc' = "f_clr_stop" /\ raceNo' = raceNo + 1]_vars
    /\ (envMode = "nomatch" /\ InFetch) ~> (mpc = "x_loop" /\ notFound = raceNo)
    /\ (envMode = "nomatch" /\ gui_stop_flag)
          ~> (mpc = "x_ret" /\ execResult = "cancelled")

\* two polls ended without a match, then the stop flag ended the stage
C20_Witness ==
    /\ envMode = "nomatch"
    /\ raceNo = 2
    /\ notFound = 2
    /\ mpc = "x_ret"
    /\ execResult = "cancelled"

(***************************************************************************)
(* C21.  The keyword match.                                                *)
(***************************************************************************)
\* the positions of the items whose title contains the keyword
Matching(list, keyword) == { i \in 1..Len(list) : Contains(list[i].title, keyword) }

\* C21: the value returned is the id of the matching item that no matching item
\* precedes, and it is None exactly when no title of the list contains the
\* keyword; the list Event Day0 (10), Event Day1 (11) with keyword Day1 gives 11.
C21_FirstMatchInListOrder ==
    /\ mOut # -1 =>
          /\ Matching(mList, mKey) # {} =>
                \E i \in Matching(mList, mKey) :
                    /\ \A j \in Matching(mList, mKey) : i <= j
                    /\ mOut = mList[i].id
          /\ mOut = 0 <=> Matching(mList, mKey) = {}
    /\ MatchIn(<< [title |-> <<"Event", "Day0">>, id |-> 10],
                  [title |-> <<"Event", "Day1">>, id |-> 11] >>, <<"Day1">>) = 11

\* two items match, the first one's id was returned
C21_Witness ==
    /\ Len(mList) = 2
    /\ Matching(mList, mKey) = {1, 2}
    /\ mList[1].id # mList[2].id
    /\ mKey # <<>>
    /\ mOut = mList[1].id

(***************************************************************************)
(* C22.  InvalidSessionError and the value of fetch_announcement_list.     *)
(***************************************************************************)
\* worker w has received InvalidSessionError from its discovery call (line 66)
ObservedInvalid(w) == wpc[w] \in {"claimE", "werr", "wstopE"} \/ error = w

\* C22: when fetch_announcement_list goes on to its keyword match or has returned
\* an id, no worker of that call has received InvalidSessionError.
C22_InvalidSessionPropagates ==
    mpc \in {"f_rd_res", "x_detail"} =>
        \A w \in CurrentThreads : ~ObservedInvalid(w)

(***************************************************************************)
(* C23.  A progress sink that raises.                                      *)
(***************************************************************************)
\* C23: whatever the progress sink does, execute leaves its first line as it does
\* with a sink that returns: to the discovery loop when a keyword is configured,
\* with the keyword failure otherwise.
C23_SinkFailureNeverAborts ==
    [][(mpc = "x_start" /\ mpc' # "x_start") =>
          IF cfgKeyword = <<>>
             THEN mpc' = "x_ret" /\ execResult' = "no_keyword"
             ELSE mpc' = "x_loop" /\ execResult' = "none"]_vars

CallReturned(w) == Gen(w) < raceNo \/ (Gen(w) = raceNo /\ ~InFetch)

\* C25: a worker whose call of fetch_announcement_list has returned starts no
\* further discovery call, so at most NWorkers workers are ever about to call or
\* calling unless they are finishing a call begun before the return.
C25_NoCallAfterReturn ==
    [][\A w \in Threads :
          CallReturned(w) => ~(wpc[w] = "ready" /\ wpc'[w] = "inflight")]_vars

(***************************************************************************)
(* C26.  The win slot and the error slot.                                  *)
(***************************************************************************)
\* C26: at most one of self.result and self.error is set.
C26_SlotsExclusive == ~(result # 0 /\ error # NoThread)

(***************************************************************************)
(* C27.  Retryable failures of the discovery call.                         *)
(***************************************************************************)
\* C27: a worker whose call ends without data and without InvalidSessionError goes
\* back to its loop condition and leaves result, error, success_flag and stop_flag
\* as they are; from the loop condition, with stop_flag clear, it goes on to the
\* next call; and while every call fails retryably no slot and no flag is ever set,
\* no worker ends and fetch_announcement_list stays in its wait loop.
C27_RetryableFailureChangesNothing ==
    /\ [][\A w \in Threads :
            /\ (wpc[w] = "inflight" /\ wpc'[w] \notin {"inflight", "claim", "claimE"}) =>
                  /\ wpc'[w] = "check"
                  /\ UNCHANGED <<result, error, success_flag, stop_flag>>
            /\ (wpc[w] = "check" /\ wpc'[w] # "check" /\ ~stop_flag) =>
                  wpc'[w] = "ready"]_vars
    /\ [](envMode = "retry" =>
            /\ result = 0 /\ error = NoThread /\ ~success_flag /\ ~stop_flag
            /\ \A w \in Threads : wpc[w] # "done"
            /\ mpc \in {"x_loop", "x_ret", "f_clr_stop", "f_clr_succ", "f_clr_res",
                         "f_clr_err", "f_spawn", "f_wait"}
            /\ mpc = "x_ret" => raceNo = 0)

\* every call fails retryably; each worker has failed twice and is calling again
C27_Witness ==
    /\ envMode = "retry"
    /\ mpc = "f_wait"
    /\ \A w \in CurrentThreads : failedCalls[w] = 2 /\ wpc[w] = "inflight"

(***************************************************************************)
(* C28.  What each stage of execute hands to the next.                     *)
(***************************************************************************)
\* C28: the detail stage is entered only with a matched id, the extraction stage
\* only with a detail that has content, the redemption stage only with a password.
C28_StagesLeftWithResult ==
    /\ mpc = "x_detail" => announcement_id # 0
    /\ mpc = "x_extract" => detail \in {1, 2}
    /\ mpc = "x_pool" => password # 0

(***************************************************************************)
(* C29.  The order of the stages of execute.                               *)
(***************************************************************************)
\* C29: a detail call has happened only after a keyword match, an extractor call
\* only after a detail response with content, a challenge or submit call of an
\* account only after the password was extracted, and the pool is invoked at most
\* once.
C29_StageOrder ==
    /\ detailCalls > 0 => announcement_id # 0
    /\ extractCalls > 0 => detail \in {1, 2}
    /\ \A a \in Accounts : CallsOf(a) # <<0, 0, 0>> => password # 0
    /\ poolCalls <= 1

(***************************************************************************)
(* C30.  Cancellation before and inside the loops of a run.                *)
(***************************************************************************)
\* the stop flag was set when execute was called, with a keyword configured: execute
\* is at the top of its discovery loop or has returned the cancellation result, and
\* nothing was spawned or invoked
CancelledAtEntry ==
    (stopAtEntry /\ cfgKeyword # <<>>) =>
        /\ mpc \in {"x_loop", "x_ret"}
        /\ mpc = "x_ret" => (execResult = "cancelled" /\ execData = NoData)
        /\ NothingInvoked

\* every iteration of an account loop has made at most one challenge, one
\* recognition and one submit call, after the check that started it
OneCheckPerIteration ==
    \A a \in Accounts :
        /\ acqCalls[a] <= attempt[a]
        /\ solveCalls[a] <= acqCalls[a]
        /\ submitCalls[a] <= solveCalls[a]

\* a step that starts a poll of a stage loop, or an iteration of an account loop,
\* is taken with the stop flag unset; with the flag set, the top of an account
\* loop leads to nothing but its return
CheckedAtTop ==
    /\ raceNo' > raceNo => ~gui_stop_flag
    /\ detailCalls' > detailCalls => ~gui_stop_flag
    /\ extractCalls' > extractCalls => ~gui_stop_flag
    /\ \A a \in Accounts :
         /\ attempt'[a] > attempt[a] => (apc[a] = "top" /\ ~gui_stop_flag)
         /\ (apc'[a] = "acquire" /\ apc[a] # "acquire") => attempt'[a] > attempt[a]
         /\ acqCalls'[a] > acqCalls[a] => apc[a] = "acquire"
         /\ (apc[a] = "top" /\ apc'[a] # "top" /\ gui_stop_flag) =>
                (apc'[a] = "done" /\ redeem_result'[a] = CancelledResult)

\* C30: when the stop flag is already set at the call of execute, with a keyword
\* configured, execute returns the cancellation result and no race worker is
\* spawned and no discovery, detail, extraction, challenge or submit operation is
\* invoked; and each poll of the three stage loops and each iteration of an account
\* loop starts with the check of the flag, before its remote operation.
C30_CancelledBeforeAnyOperation ==
    /\ [](CancelledAtEntry /\ OneCheckPerIteration)
    /\ [][CheckedAtTop]_vars

\* execute was called with the flag set and has returned the cancellation result
C30_Witness ==
    /\ stopAtEntry
    /\ cfgKeyword # <<>>
    /\ mpc = "x_ret"
    /\ execResult = "cancelled"
    /\ NothingInvoked

(***************************************************************************)
(* C31.  The extraction stage works on the detail of stage 2.              *)
(***************************************************************************)
\* a step taken in the extraction stage makes no detail call and keeps the detail;
\* when the extractor finds nothing in that detail, a step that leaves the stage
\* is the return of the cancellation result
ExtractionKeepsDetail ==
    mpc = "x_extract" =>
        /\ detailCalls' = detailCalls
        /\ detail' = detail
        /\ (ExtractPassword(detail) = 0 /\ mpc' # "x_extract") =>
               (mpc' = "x_ret" /\ execResult' = "cancelled")

\* C31: during the extraction stage the detail operation is not invoked again,
\* every extraction attempt is made on the content retrieved in stage 2, and when
\* the extractor finds no password in that content the stage ends by cancellation
\* only.
C31_ExtractionOnSameDetail == [][ExtractionKeepsDetail]_vars

\* two extractions have failed on the one detail that was fetched, and the stage
\* has ended by cancellation
C31_Witness ==
    /\ mpc = "x_ret"
    /\ execResult = "cancelled"
    /\ detail = 2
    /\ detailCalls = 1
    /\ extractCalls = 2
    /\ password = 0

(***************************************************************************)
(* C32.  Consecutive races on one fetcher.                                 *)
(***************************************************************************)
\* C32: the error that a call of fetch_announcement_list reads at line 130 and the
\* result it reads at line 134 were written by a worker that this call spawned.
C32_RacesIsolated ==
    /\ (mpc = "f_rd_err" /\ error # NoThread) => IsCurrent(error)
    /\ (mpc = "f_rd_res" /\ result # 0) => IsCurrent(resultBy)

(***************************************************************************)
(* C33.  execute returns a result for every exception.                     *)
(***************************************************************************)
\* the results that execute returns
Returned == {"cancelled", "no_keyword", "no_accounts", "exception", "sink_exception",
             "success", "all_failed"}

\* C33: no exception leaves execute: when execute has ended it has returned a
\* result, an exception inside it gives the error result (success false, no data),
\* and when the race has raised InvalidSessionError the run is over and has invoked
\* no detail, extraction, challenge, recognition or submit operation and no pool.
C33_ExecuteNeverRaises ==
    /\ execResult # "raised"
    /\ mpc = "x_ret" => execResult \in Returned
    /\ execResult \in {"exception", "sink_exception"} =>
          (mpc = "x_ret" /\ execData = NoData)
    /\ execResult = "exception" =>
          /\ detailCalls = 0
          /\ extractCalls = 0
          /\ poolCalls = 0
          /\ \A a \in Accounts : CallsOf(a) = <<0, 0, 0>>

\* the race has raised the InvalidSessionError of one of its workers and execute
\* has returned the error result
C33_Witness ==
    /\ mpc = "x_ret"
    /\ execResult = "exception"
    /\ error # NoThread
    /\ execData = NoData

(***************************************************************************)
(* C34.  One pipeline run at a time.                                       *)
(***************************************************************************)
\* C34: at most one thread is executing RedeemController.execute.
C34_OneRunAtATime == Cardinality({r \in Runs : Alive(r)}) <= 1

(***************************************************************************)
(* C35.  A cancelled schedule.                                             *)
(***************************************************************************)
\* C35: _scheduled_start is never executed for a schedule for which _cancel_schedule
\* has set the stop event, and it is executed at most once for any schedule.
C35_CancelledScheduleNeverStarts ==
    \A k \in Schedules :
        /\ k \in schedCancelled => schedStarts[k] = 0
        /\ schedStarts[k] <= 1

(***************************************************************************)
(* C36.  Manual challenge entry by several accounts.                       *)
(***************************************************************************)
\* C36: the answer that the callback has returned to an account is the text typed
\* for the image of that account's own request, never empty and never the text of
\* another image; and the waits released are no more than the submissions made.
C36_OwnAnswerPerAccount ==
    /\ \A a \in Accounts :
          (cpc[a] = "idle" /\ creq[a] > 0) => cans[a] = <<a, creq[a]>>
    /\ releases <= submits

=============================================================================
